---------------------------- MODULE Spec2Model ----------------------------
(***************************************************************************)
(* Model of the Creatte contact system's Netlify functions:                *)
(*   - check-reminders : the periodic reminder cycle                        *)
(*   - send-reminder   : the ad-hoc broadcast                               *)
(*   - webhook         : the inbound LINE webhook                           *)
(* The window matcher and the template renderer of check-reminders are     *)
(* also exercised on their own (SpecMatch, SpecRender); the reminder cycle *)
(* itself records which push is made, not the text that is pushed.         *)
(*                                                                         *)
(* Conventions.                                                            *)
(*   - Instants are milliseconds since 2024-06-01T00:00:00.000+09:00 (TLC  *)
(*     computes in 32 bits, which hold 24 days of milliseconds).           *)
(*   - A date string "YYYY-MM-DD" is the tuple <<y, m, d>>, a time string  *)
(*     "HH:MM" is the tuple <<h, mi>>; the empty tuple is the empty (or    *)
(*     absent) string, which JavaScript treats as falsy.                   *)
(*   - Labels are written in ASCII: "24h" is the label of the 24-hour      *)
(*     window, "3h" of the 3-hour window, "1h" of the 1-hour window;       *)
(*     "completed" and "absent" are the two terminal attendance values.    *)
(***************************************************************************)
EXTENDS Integers, Sequences, FiniteSets, TLC

VARIABLES
    \* ---- environment of the reminder cycle
    env,          \* which of the three configuration values are set
    hostOffset,   \* the host's local zone, minutes east of UTC
    clock,        \* the real current instant
    db,           \* the documents of collection system_data, in order
    \* ---- one invocation of check-reminders
    pc,           \* "idle" | "fetch" | "loop" | "await" | "done" | "rejected" ("off": not in use)
    schedules, students, settings, now,
    idx,          \* position of the for-loop in schedules
    diffMin,      \* diffMin of the last schedule that reached line 112
    sent, skipped,
    response,     \* what the handler returned
    dbCalls,      \* data-source requests of this invocation
    lineCalls,    \* channel requests of this invocation
    \* ---- history over the invocations
    inv,          \* number of the current invocation
    firstClock,   \* the instant of the first invocation
    sentFrom,     \* for each entry of sent, the schedule it came from
    skippedFrom,  \* for each entry of skipped, the schedule it came from
    outcome,      \* for each schedule examined in this invocation, what became of it
    history,      \* every channel request so far: [inv, idx, label, result]
    faults,       \* whether a data-source request has failed so far
    fetchResult,  \* "none" | "ok" | "non200" | "error": the data-source request of this invocation
    \* ---- the window matcher applied to one input
    mDiff, mSettings, mWindow,
    \* ---- one invocation of send-reminder
    bEvent,       \* the request: [httpMethod, body]
    bToken,       \* whether LINE_CHANNEL_ACCESS_TOKEN is set
    bPc,          \* "idle" | "loop" | "await" | "done" | "rejected" ("off": not in use)
    bUserIds,     \* userIds of the destructured body
    bIdx,         \* position of the for-loop in userIds
    bResults,     \* results
    bCalls,       \* every channel request: [userId, result]
    bResponse,    \* what the handler returned
    \* ---- the template renderer applied to one input
    rTemplate,    \* settings.template_24h, a sequence of tokens
    rSchedule,    \* the schedule's fields, each a sequence of tokens
    rLabel,       \* the label of the matched window
    rBody,        \* messageBody
    rText,        \* text
    rPc,          \* "ready" | "done" ("off": not in use)
    \* ---- one invocation of the webhook handler
    wEvent,       \* the request: [httpMethod, signature, body]
    wSecret,      \* LINE_CHANNEL_SECRET ("" when not set)
    wToken,       \* whether LINE_CHANNEL_ACCESS_TOKEN is set
    wPc,          \* "idle" | "loop" | "await" | "done" | "rejected" ("off": not in use)
    wEvents,      \* events
    wIdx,         \* position of the for-loop in events
    wHandled,     \* number of calls of handleLineEvent
    wReplies,     \* every reply request: [event, result]
    wResponse     \* the status code the handler returned (0: none)

cycleVars == <<env, hostOffset, clock, db, pc, schedules, students, settings, now,
               idx, diffMin, sent, skipped, response, dbCalls, lineCalls, inv,
               firstClock, sentFrom, skippedFrom, outcome, history, faults,
               fetchResult>>
matchVars == <<mDiff, mSettings, mWindow>>
broadcastVars == <<bEvent, bToken, bPc, bUserIds, bIdx, bResults, bCalls, bResponse>>

renderVars == <<rTemplate, rSchedule, rLabel, rBody, rText, rPc>>
webhookVars == <<wEvent, wSecret, wToken, wPc, wEvents, wIdx, wHandled, wReplies, wResponse>>

vars == <<cycleVars, matchVars, broadcastVars, renderVars, webhookVars>>

-----------------------------------------------------------------------------
(* Bounds of the model *)

MaxSchedules == 2
MaxInvocations == 2

-----------------------------------------------------------------------------
(* Time *)

MinuteMs == 60000
TokyoOffsetMin == 540
HourMs == 60 * MinuteMs

\* Days before the first of each month of 2024.
CumDays == <<0, 31, 60, 91, 121, 152, 182, 213, 244, 274, 305, 335>>

\* Days from 2024-06-01 to the date (dates of 2024 only).
DaysFromOrigin(date) == (CumDays[date[2]] + date[3]) - (CumDays[6] + 1)

\* Minutes of the civil time date T time since the civil origin.
CivilMinutes(date, time) == DaysFromOrigin(date) * 1440 + time[1] * 60 + time[2]

\* new Date(`${date}T${time}:00+09:00`): the instant at which clocks at UTC+9
\* show that civil time.
ClassTime(schedule) ==
    CivilMinutes(schedule.schedule_date, schedule.schedule_time) * MinuteMs

\* new Date().toLocaleString('en-US', {timeZone: 'Asia/Tokyo'}): the Tokyo wall
\* clock at instant t, to the second (the format holds no milliseconds), as
\* seconds since the civil origin.
TokyoWallClock(t) == t \div 1000

\* new Date(string) of a wall-clock string without zone: the instant at which
\* the HOST's clock shows it.
ParseLocal(wall, host) == wall * 1000 + (TokyoOffsetMin - host) * MinuteMs

\* Line 101.
Now(t, host) == ParseLocal(TokyoWallClock(t), host)

\* Line 112.
DiffMinOf(schedule, n) == (ClassTime(schedule) - n) \div MinuteMs

-----------------------------------------------------------------------------
(* Window matching, lines 115-117 and 131 *)

Is24hNoUpper(s, d) == s.remind_24h /\ d >= 1425
Is24h(s, d) == s.remind_24h /\ d >= 1425 /\ d <= 1455
Is3hExclusive(s, d) == s.remind_3h /\ d > 165 /\ d < 195
Is3h(s, d) == s.remind_3h /\ d >= 165 /\ d <= 195
Is1h(s, d) == s.remind_1h /\ d >= 45 /\ d <= 75

Label(is24h, is3h) == IF is24h THEN "24h" ELSE IF is3h THEN "3h" ELSE "1h"

\* The window the loop body acts on for (settings, diffMin): "none" is the
\* branch of line 119.
MatchedWindow(s, d) ==
    IF ~Is24h(s, d) /\ ~Is3h(s, d) /\ ~Is1h(s, d) THEN "none"
    ELSE Label(Is24h(s, d), Is3h(s, d))

-----------------------------------------------------------------------------
(* Documents.  db holds the documents of the collection as getFirestoreDocs  *)
(* returns them (after parseFirestoreDoc), every document with the same      *)
(* fields; a field the document does not carry is "" or <<>>, or FALSE for a *)
(* flag, all falsy in JavaScript.                                            *)

NoDate == <<>>
NoTime == <<>>

ScheduleDoc(name, date, time, attendance) ==
    [type |-> "schedule", student_name |-> name, schedule_date |-> date,
     schedule_time |-> time, attendance |-> attendance, student_line_id |-> "",
     remind_24h |-> FALSE, remind_3h |-> FALSE, remind_1h |-> FALSE]

StudentDoc(name, lineId) ==
    [type |-> "student", student_name |-> name, schedule_date |-> NoDate,
     schedule_time |-> NoTime, attendance |-> "", student_line_id |-> lineId,
     remind_24h |-> FALSE, remind_3h |-> FALSE, remind_1h |-> FALSE]

SettingsDoc(r24, r3, r1) ==
    [type |-> "reminder_settings", student_name |-> "", schedule_date |-> NoDate,
     schedule_time |-> NoTime, attendance |-> "", student_line_id |-> "",
     remind_24h |-> r24, remind_3h |-> r3, remind_1h |-> r1]

DefaultSettingsAllOn == SettingsDoc(TRUE, TRUE, TRUE)

\* Lines 93-98: the settings used when the collection holds no settings document.
DefaultSettings == SettingsDoc(TRUE, TRUE, FALSE)

\* Array.prototype.filter(d => d.type === t), lines 91-92.
FilterType(docs, t) == SelectSeq(docs, LAMBDA d : d.type = t)

\* Line 93: Array.prototype.find returns the first settings document; without
\* one the default applies.
FindSettings(docs) ==
    LET isSettings(i) == docs[i].type = "reminder_settings"
    IN  IF \E i \in 1..Len(docs) : isSettings(i)
        THEN docs[CHOOSE i \in 1..Len(docs) :
                     isSettings(i) /\ \A j \in 1..(i - 1) : ~isSettings(j)]
        ELSE DefaultSettings

\* Line 125: Array.prototype.find, as the index in studs of the first student
\* of that name, 0 if there is none.
FindStudent(studs, name) ==
    LET named(i) == studs[i].student_name = name
    IN  IF \E i \in 1..Len(studs) : named(i)
        THEN CHOOSE i \in 1..Len(studs) : named(i) /\ \A j \in 1..(i - 1) : ~named(j)
        ELSE 0

\* Line 107: a required field is missing.
MissingFields(schedule) ==
    \/ schedule.schedule_date = NoDate
    \/ schedule.schedule_time = NoTime
    \/ schedule.student_name = ""

\* Line 108.
AttendanceClosedCompletedOnly(schedule) == schedule.attendance = "completed"
AttendanceClosed(schedule) ==
    schedule.attendance = "completed" \/ schedule.attendance = "absent"

NoRecipientUnmatchedOnly(studs, name) == FindStudent(studs, name) = 0

\* Line 126: !student?.student_line_id
NoRecipient(studs, name) ==
    LET i == FindStudent(studs, name)
    IN  IF i = 0 THEN TRUE ELSE studs[i].student_line_id = ""

-----------------------------------------------------------------------------
(* Inputs of the reminder cycle *)

ConfigNames == <<"LINE_CHANNEL_ACCESS_TOKEN", "FIREBASE_PROJECT_ID", "FIREBASE_WEB_API_KEY">>

\* env[i] is whether ConfigNames[i] is set to a non-empty value.
EnvSets == [1..3 -> BOOLEAN]
EnvComplete(e) == e[1] /\ e[2] /\ e[3]

\* The host runs at UTC+9 or at UTC.
HostOffsets == {TokyoOffsetMin, 0}

Instant(date, time, sec, ms) == CivilMinutes(date, time) * MinuteMs + sec * 1000 + ms

Jun9 == <<2024, 6, 9>>
Jun10 == <<2024, 6, 10>>

Clocks == { Instant(Jun9, <<10, 5>>, 0, 0),
            Instant(Jun9, <<10, 5>>, 0, 500),
            Instant(Jun9, <<9, 5>>, 0, 0) }

\* The scheduler posts every hour; the second interval is an hour with a
\* delay of a second and a half.
CadenceIntervals == {HourMs, HourMs + 1500}

ScheduleDocs ==
    { ScheduleDoc("A", Jun10, <<10, 0>>, ""),           \* 1435 min after 10:05
      ScheduleDoc("A", Jun9,  <<13, 0>>, ""),           \* 175 min after 10:05
      ScheduleDoc("B", Jun9,  <<11, 0>>, "pending"),    \* 55 min after 10:05
      ScheduleDoc("A", Jun10, <<10, 30>>, ""),          \* 1465 min after 10:05
      ScheduleDoc("A", Jun10, <<19, 0>>, ""),           \* 1975 min after 10:05
      ScheduleDoc("A", Jun10, <<10, 0>>, "completed"),
      ScheduleDoc("B", Jun10, <<10, 0>>, "absent"),
      ScheduleDoc("",  Jun10, <<10, 0>>, ""),
      ScheduleDoc("A", NoDate, <<10, 0>>, ""),
      ScheduleDoc("A", Jun10, NoTime, "") }

StudentLists ==
    { <<>>,
      <<StudentDoc("A", "U1"), StudentDoc("B", "U2")>>,
      <<StudentDoc("A", ""), StudentDoc("A", "U1"), StudentDoc("B", "U2")>> }

SettingsLists == { <<>>, <<SettingsDoc(TRUE, TRUE, TRUE)>> }

SeqsUpTo(S, n) == UNION { [1..k -> S] : k \in 0..n }

Dbs == { st \o ss \o sc : st \in SettingsLists, ss \in StudentLists,
                           sc \in SeqsUpTo(ScheduleDocs, MaxSchedules) }

-----------------------------------------------------------------------------
(* The parts of the state a specification leaves alone *)

MatchIdle == mDiff = 0 /\ mSettings = DefaultSettings /\ mWindow = "unset"

NoBroadcastResponse == [statusCode |-> 0, error |-> "", results |-> <<>>]

BroadcastIdle ==
    /\ bEvent = [httpMethod |-> "", body |-> [kind |-> "invalid"]]
    /\ bToken = FALSE
    /\ bPc = "off"
    /\ bUserIds = <<>> /\ bIdx = 0 /\ bResults = <<>> /\ bCalls = <<>>
    /\ bResponse = NoBroadcastResponse

NoSchedule ==
    [student_name |-> <<>>, schedule_date |-> <<>>, schedule_time |-> <<>>,
     subject |-> <<>>, instructor |-> <<>>]

RenderIdle ==
    /\ rTemplate = <<>> /\ rSchedule = NoSchedule /\ rLabel = ""
    /\ rBody = <<>> /\ rText = <<>> /\ rPc = "off"

\* event.body when the request carries none, and the x-line-signature header
\* when it is missing or empty.
NoBody == [kind |-> "absent", events |-> <<>>]
NoSignature == [present |-> FALSE, key |-> "", msg |-> NoBody]

WebhookIdle ==
    /\ wEvent = [httpMethod |-> "", signature |-> NoSignature, body |-> NoBody]
    /\ wSecret = "" /\ wToken = FALSE /\ wPc = "off"
    /\ wEvents = <<>> /\ wIdx = 0 /\ wHandled = 0 /\ wReplies = <<>>
    /\ wResponse = 0

-----------------------------------------------------------------------------
(* The reminder cycle: exports.handler of check-reminders.js *)

NoResponse ==
    [statusCode |-> 0, missing |-> <<>>, sent |-> <<>>, skippedCount |-> 0, checkedAt |-> 0]

\* Lines 81-85: the names of the missing values, in the order of the array.
MissingNames(e) ==
    (IF e[1] THEN <<>> ELSE <<ConfigNames[1]>>)
    \o (IF e[2] THEN <<>> ELSE <<ConfigNames[2]>>)
    \o (IF e[3] THEN <<>> ELSE <<ConfigNames[3]>>)

\* Line 80.
ConfigMissingTokenOnly(e) == ~e[1]
ConfigMissing(e) == ~e[1] \/ ~e[2] \/ ~e[3]

LocalsInit ==
    /\ schedules = <<>> /\ students = <<>> /\ settings = DefaultSettings
    /\ now = 0 /\ idx = 0 /\ diffMin = 0 /\ sent = <<>> /\ skipped = <<>>
    /\ response = NoResponse /\ dbCalls = 0 /\ lineCalls = 0
    /\ sentFrom = <<>> /\ skippedFrom = <<>> /\ outcome = <<>>
    /\ fetchResult = "none"

Init ==
    /\ env \in EnvSets
    /\ hostOffset \in HostOffsets
    /\ clock \in Clocks
    \* With a configuration value missing the handler returns before it reads
    \* the data source: these runs take the collections of at most one document.
    /\ db \in IF EnvComplete(env) THEN Dbs ELSE { d \in Dbs : Len(d) <= 1 }
    /\ pc = "idle"
    /\ LocalsInit
    /\ inv = 1
    /\ firstClock = clock
    /\ history = <<>>
    /\ faults = FALSE
    /\ MatchIdle
    /\ BroadcastIdle
    /\ RenderIdle
    /\ WebhookIdle

inputVars == <<env, hostOffset, db, firstClock>>
loopVars == <<schedules, students, settings, now>>
listVars == <<sent, skipped, sentFrom, skippedFrom>>

\* Lines 80-87: a configuration value is missing.
ConfigError ==
    /\ pc = "idle"
    /\ ConfigMissing(env)
    /\ response' = [NoResponse EXCEPT !.statusCode = 500, !.missing = MissingNames(env)]
    /\ pc' = "done"
    /\ UNCHANGED <<inputVars, clock, loopVars, listVars, idx, diffMin, dbCalls,
                   lineCalls, inv, outcome, history, faults>>
    /\ UNCHANGED <<fetchResult, matchVars, broadcastVars, renderVars, webhookVars>>

\* Lines 76-80: the configuration is complete; the handler goes on to line 90.
Start ==
    /\ pc = "idle"
    /\ ~ConfigMissing(env)
    /\ dbCalls' = dbCalls + 1
    /\ pc' = "fetch"
    /\ UNCHANGED <<inputVars, clock, loopVars, listVars, idx, diffMin, response,
                   lineCalls, inv, outcome, history, faults>>
    /\ UNCHANGED <<fetchResult, matchVars, broadcastVars, renderVars, webhookVars>>

\* Lines 90-104 with allData the array getFirestoreDocs returned.
Fetched(allData) ==
    /\ schedules' = FilterType(allData, "schedule")
    /\ students' = FilterType(allData, "student")
    /\ settings' = FindSettings(allData)
    /\ now' = Now(clock, hostOffset)
    /\ idx' = 1
    /\ pc' = "loop"
    /\ UNCHANGED <<inputVars, clock, listVars, diffMin, response, dbCalls, lineCalls,
                   inv, outcome, history>>

\* getFirestoreDocs, status 200: lines 41-42.
FetchOk ==
    /\ pc = "fetch"
    /\ Fetched(db)
    /\ fetchResult' = "ok"
    /\ UNCHANGED faults
    /\ UNCHANGED <<matchVars, broadcastVars, renderVars, webhookVars>>

\* getFirestoreDocs, another status: lines 37-40.
FetchNon200 ==
    /\ pc = "fetch"
    /\ Fetched(<<>>)
    /\ fetchResult' = "non200"
    /\ faults' = TRUE
    /\ UNCHANGED <<matchVars, broadcastVars, renderVars, webhookVars>>

\* request rejects (line 27): the await of line 36 throws, nothing catches it
\* in getFirestoreDocs or in the handler, and the handler's promise rejects.
FetchError ==
    /\ pc = "fetch"
    /\ pc' = "rejected"
    /\ fetchResult' = "error"
    /\ faults' = TRUE
    /\ UNCHANGED <<inputVars, clock, loopVars, listVars, idx, diffMin, response,
                   dbCalls, lineCalls, inv, outcome, history>>
    /\ UNCHANGED <<matchVars, broadcastVars, renderVars, webhookVars>>

InLoop == pc = "loop" /\ idx <= Len(schedules)

\* Lines 107-108: continue.
LoopExcluded ==
    /\ InLoop
    /\ MissingFields(schedules[idx]) \/ AttendanceClosed(schedules[idx])
    /\ idx' = idx + 1
    /\ outcome' = Append(outcome, "excluded")
    /\ UNCHANGED <<inputVars, clock, pc, loopVars, listVars, diffMin, response,
                   dbCalls, lineCalls, inv, history, faults>>
    /\ UNCHANGED <<fetchResult, matchVars, broadcastVars, renderVars, webhookVars>>

Reaches112 ==
    /\ InLoop
    /\ ~MissingFields(schedules[idx])
    /\ ~AttendanceClosed(schedules[idx])

\* Lines 111-122: no window is due.
LoopSkipTiming ==
    /\ Reaches112
    /\ LET d == DiffMinOf(schedules[idx], now)
       IN  /\ MatchedWindow(settings, d) = "none"
           /\ diffMin' = d
           /\ skipped' = Append(skipped, [student |-> schedules[idx].student_name,
                                          diffMin |-> d])
    /\ skippedFrom' = Append(skippedFrom, idx)
    /\ idx' = idx + 1
    /\ outcome' = Append(outcome, "skipped")
    /\ UNCHANGED <<inputVars, clock, pc, loopVars, sent, sentFrom, response,
                   dbCalls, lineCalls, inv, history, faults>>
    /\ UNCHANGED <<fetchResult, matchVars, broadcastVars, renderVars, webhookVars>>

LoopNoRecipientCounted ==
    /\ Reaches112
    /\ LET d == DiffMinOf(schedules[idx], now)
       IN  /\ MatchedWindow(settings, d) # "none"
           /\ diffMin' = d
           /\ skipped' = Append(skipped, [student |-> schedules[idx].student_name,
                                          diffMin |-> d])
    /\ NoRecipient(students, schedules[idx].student_name)
    /\ skippedFrom' = Append(skippedFrom, idx)
    /\ idx' = idx + 1
    /\ outcome' = Append(outcome, "norecipient")
    /\ UNCHANGED <<inputVars, clock, pc, loopVars, sent, sentFrom, response,
                   dbCalls, lineCalls, inv, history, faults>>
    /\ UNCHANGED <<fetchResult, matchVars, broadcastVars, renderVars, webhookVars>>

\* Lines 111-129: a window is due and the student has no recipient id.
LoopNoRecipient ==
    /\ Reaches112
    /\ LET d == DiffMinOf(schedules[idx], now)
       IN  /\ MatchedWindow(settings, d) # "none"
           /\ diffMin' = d
    /\ NoRecipient(students, schedules[idx].student_name)
    /\ idx' = idx + 1
    /\ outcome' = Append(outcome, "norecipient")
    /\ UNCHANGED <<inputVars, clock, pc, loopVars, listVars, response,
                   dbCalls, lineCalls, inv, history, faults>>
    /\ UNCHANGED <<fetchResult, matchVars, broadcastVars, renderVars, webhookVars>>

Due ==
    /\ Reaches112
    /\ MatchedWindow(settings, DiffMinOf(schedules[idx], now)) # "none"
    /\ ~NoRecipient(students, schedules[idx].student_name)

\* Line 142: the result of a channel request that is not answered yet.
Pending == 0 - 1

\* Lines 111-142, up to the await: the request is issued and the handler
\* yields until the channel answers.
LoopPushIssue ==
    /\ Due
    /\ LET d == DiffMinOf(schedules[idx], now)
       IN  /\ diffMin' = d
           /\ history' = Append(history, [inv |-> inv, idx |-> idx,
                                          label |-> MatchedWindow(settings, d),
                                          result |-> Pending])
    /\ lineCalls' = lineCalls + 1
    /\ pc' = "await"
    /\ UNCHANGED <<inputVars, clock, loopVars, listVars, idx, response, dbCalls,
                   inv, outcome, faults>>
    /\ UNCHANGED <<fetchResult, matchVars, broadcastVars, renderVars, webhookVars>>

PushStatuses == {200, 400}

LoopPushPrepend ==
    /\ pc = "await"
    /\ \E status \in PushStatuses :
         /\ sent' = <<[student |-> schedules[idx].student_name,
                       label |-> MatchedWindow(settings, diffMin),
                       lineStatus |-> status]>> \o sent
         /\ history' = [history EXCEPT ![Len(history)].result = status]
    /\ sentFrom' = <<idx>> \o sentFrom
    /\ idx' = idx + 1
    /\ outcome' = Append(outcome, "sent")
    /\ pc' = "loop"
    /\ UNCHANGED <<inputVars, clock, loopVars, diffMin, skipped, skippedFrom, response,
                   dbCalls, lineCalls, inv, faults>>
    /\ UNCHANGED <<fetchResult, matchVars, broadcastVars, renderVars, webhookVars>>

\* Lines 142-144: the channel answers with a status; the entry is added to
\* sent and the loop goes on.
LoopPush ==
    /\ pc = "await"
    /\ \E status \in PushStatuses :
         /\ sent' = Append(sent, [student |-> schedules[idx].student_name,
                                  label |-> MatchedWindow(settings, diffMin),
                                  lineStatus |-> status])
         /\ history' = [history EXCEPT ![Len(history)].result = status]
    /\ sentFrom' = Append(sentFrom, idx)
    /\ idx' = idx + 1
    /\ outcome' = Append(outcome, "sent")
    /\ pc' = "loop"
    /\ UNCHANGED <<inputVars, clock, loopVars, diffMin, skipped, skippedFrom, response,
                   dbCalls, lineCalls, inv, faults>>
    /\ UNCHANGED <<fetchResult, matchVars, broadcastVars, renderVars, webhookVars>>

\* Line 142: request rejects (line 27); the await throws, no try encloses it,
\* and the handler's promise rejects: nothing is returned.  The result 0 in
\* history stands for the transport error.
LoopPushError ==
    /\ pc = "await"
    /\ history' = [history EXCEPT ![Len(history)].result = 0]
    /\ pc' = "rejected"
    /\ outcome' = Append(outcome, "threw")
    /\ UNCHANGED <<inputVars, clock, loopVars, listVars, idx, diffMin, response, dbCalls,
                   lineCalls, inv, faults>>
    /\ UNCHANGED <<fetchResult, matchVars, broadcastVars, renderVars, webhookVars>>

\* Lines 147-155.
Return ==
    /\ pc = "loop"
    /\ idx > Len(schedules)
    /\ response' = [statusCode |-> 200, missing |-> <<>>, sent |-> sent,
                    skippedCount |-> Len(skipped), checkedAt |-> now]
    /\ pc' = "done"
    /\ UNCHANGED <<inputVars, clock, loopVars, listVars, idx, diffMin, dbCalls,
                   lineCalls, inv, outcome, history, faults>>
    /\ UNCHANGED <<fetchResult, matchVars, broadcastVars, renderVars, webhookVars>>

\* The scheduler posts again an hour later (file header, lines 13-14): a new
\* invocation, which shares nothing with the last one.
NextInvocation ==
    /\ pc \in {"done", "rejected"}
    /\ inv < MaxInvocations
    /\ \E iv \in CadenceIntervals : clock' = clock + iv
    /\ inv' = inv + 1
    /\ pc' = "idle"
    /\ schedules' = <<>> /\ students' = <<>> /\ settings' = DefaultSettings
    /\ now' = 0 /\ idx' = 0 /\ diffMin' = 0 /\ sent' = <<>> /\ skipped' = <<>>
    /\ response' = NoResponse /\ dbCalls' = 0 /\ lineCalls' = 0
    /\ sentFrom' = <<>> /\ skippedFrom' = <<>> /\ outcome' = <<>>
    /\ fetchResult' = "none"
    /\ UNCHANGED <<inputVars, history, faults>>
    /\ UNCHANGED <<matchVars, broadcastVars, renderVars, webhookVars>>

Next ==
    \/ ConfigError \/ Start
    \/ FetchOk \/ FetchNon200 \/ FetchError
    \/ LoopExcluded \/ LoopSkipTiming \/ LoopNoRecipient
    \/ LoopPushIssue \/ LoopPush \/ LoopPushError
    \/ Return
    \/ NextInvocation

Spec == Init /\ [][Next]_vars

-----------------------------------------------------------------------------
(* Properties of the reminder cycle *)

Range(seq) == { seq[i] : i \in 1..Len(seq) }

\* floor((class start instant at UTC+9 - real current instant) / 60000)
TrueDiff(schedule, t) == (ClassTime(schedule) - t) \div MinuteMs

WindowNames == {"24h", "3h", "1h"}
WindowOffset(w) == IF w = "24h" THEN 1440 ELSE IF w = "3h" THEN 180 ELSE 60
WindowEnabled(s, w) ==
    IF w = "24h" THEN s.remind_24h ELSE IF w = "3h" THEN s.remind_3h ELSE s.remind_1h
Tolerance == 15

\* The schedule passes lines 107-108.
Eligible(schedule) ==
    /\ schedule.schedule_date # NoDate
    /\ schedule.schedule_time # NoTime
    /\ schedule.student_name # ""
    /\ schedule.attendance \notin {"completed", "absent"}

\* Some examined schedule reached line 112 last, and diffMin is its difference.
DiffComputed ==
    /\ pc # "await"
    /\ outcome # <<>>
    /\ outcome[Len(outcome)] \in {"skipped", "norecipient", "sent", "threw"}

\* The channel requests of this invocation that did not end with status 200.
FailedPushes ==
    { k \in 1..Len(history) : history[k].inv = inv /\ history[k].result \notin {200, Pending} }

\* C1: when the push for a due schedule fails, with a non-2xx status or with a
\* transport error, the failure is recorded in the sent list, the schedules
\* after it are still processed, and the invocation ends with a 200 summary.
C1_FailedPushDoesNotAbort ==
    \A k \in FailedPushes :
        /\ pc # "rejected"
        /\ \E j \in 1..Len(sent) :
              sentFrom[j] = history[k].idx /\ sent[j].lineStatus # 200
        /\ pc = "done" => response.statusCode = 200 /\ Len(outcome) = Len(schedules)

\* C2: whatever the host's zone, diffMin is the floor of the real difference in
\* minutes between the class start at UTC+9 and the current instant; and a
\* class 1435 minutes ahead, with the 24h window enabled and a student with a
\* recipient id, yields exactly one send labelled 24h.
C2_DiffMinIsRealDifference ==
    /\ DiffComputed => diffMin = TrueDiff(schedules[Len(outcome)], clock)
    /\ pc = "await" => diffMin = TrueDiff(schedules[idx], clock)
    /\ pc = "done" /\ response.statusCode = 200 =>
         \A i \in 1..Len(schedules) :
            ( /\ Eligible(schedules[i])
              /\ TrueDiff(schedules[i], clock) = 1435
              /\ settings.remind_24h
              /\ ~NoRecipient(students, schedules[i].student_name) )
            => Cardinality({ j \in 1..Len(sent) :
                               sentFrom[j] = i /\ sent[j].label = "24h" }) = 1

\* C3: over repeated hourly invocations on unchanged records, no schedule is
\* pushed more than once for the same window.
C3_NoDoublePush ==
    \A k1, k2 \in 1..Len(history) :
        (history[k1].idx = history[k2].idx /\ history[k1].label = history[k2].label)
        => k1 = k2

\* A schedule pushed in the first invocation was examined again by the second,
\* an hour later, which has completed.
C3_Witness ==
    /\ inv = 2 /\ pc = "done" /\ fetchResult = "ok"
    /\ \E k \in 1..Len(history) :
          /\ history[k].inv = 1
          /\ history[k].idx <= Len(outcome)
          /\ outcome[history[k].idx] = "skipped"

DbSchedules == FilterType(db, "schedule")
DbStudents == FilterType(db, "student")

\* C4: every eligible schedule that exists before a window's band begins has
\* been pushed for that enabled window once the band is over.  Stated for the
\* runs in which nothing else went wrong: the host is at UTC+9, every
\* data-source request succeeded and no channel request met a transport error.
C4_NoSilentDrop ==
    \A i \in 1..Len(DbSchedules) : \A w \in WindowNames :
        ( /\ pc = "done" /\ response.statusCode = 200
          /\ hostOffset = TokyoOffsetMin /\ ~faults
          /\ \A k \in 1..Len(history) : history[k].result # 0
          /\ Eligible(DbSchedules[i])
          /\ ~NoRecipient(DbStudents, DbSchedules[i].student_name)
          /\ WindowEnabled(FindSettings(db), w)
          /\ TrueDiff(DbSchedules[i], firstClock) > WindowOffset(w) + Tolerance
          /\ TrueDiff(DbSchedules[i], clock) < WindowOffset(w) - Tolerance )
        => \E k \in 1..Len(history) : history[k].idx = i /\ history[k].label = w

\* C5: when the data-source request fails with a transport error or returns a
\* status other than success, the cycle makes no channel request and completes
\* with a 200 summary that reports no send.
C5_DataSourceFailureGivesEmptyCycle ==
    fetchResult \in {"non200", "error"} =>
        /\ lineCalls = 0
        /\ pc # "rejected"
        /\ pc = "done" => response.statusCode = 200 /\ response.sent = <<>>

\* C9: when a configuration value is missing, the handler returns 500, its
\* payload names exactly the missing values, and it makes no data-source and
\* no channel request.
C9_MissingConfigIs500 ==
    (pc # "idle" /\ \E i \in 1..3 : ~env[i]) =>
        /\ pc = "done"
        /\ response.statusCode = 500
        /\ \A i \in 1..3 : (ConfigNames[i] \in Range(response.missing)) <=> ~env[i]
        /\ Len(response.missing) = Cardinality({ i \in 1..3 : ~env[i] })
        /\ dbCalls = 0 /\ lineCalls = 0 /\ history = <<>>

\* The handler has answered with two of the three values missing.
C9_Witness ==
    /\ pc = "done" /\ response.statusCode = 500
    /\ env[1] /\ ~env[2] /\ ~env[3]
    /\ response.missing = <<"FIREBASE_PROJECT_ID", "FIREBASE_WEB_API_KEY">>

\* C10: a schedule whose attendance is completed or absent is in neither the
\* sent list nor the skipped list, is not counted in skippedCount, and causes
\* no channel request, whatever its date and time.
C10_ClosedAttendanceExcluded ==
    \A i \in 1..Len(schedules) :
        schedules[i].attendance \in {"completed", "absent"} =>
            /\ i \notin Range(sentFrom)
            /\ i \notin Range(skippedFrom)
            /\ \A k \in 1..Len(history) : history[k].inv = inv => history[k].idx # i
            /\ (pc = "done" /\ response.statusCode = 200) =>
                  response.skippedCount =
                      Cardinality({ j \in 1..Len(schedules) :
                                      /\ j <= Len(outcome)
                                      /\ outcome[j] = "skipped"
                                      /\ schedules[j].attendance \notin {"completed", "absent"} })

\* A schedule with attendance absent whose class starts in the 24h band, with
\* all fields present and a student with a recipient id, has been examined and
\* the invocation has completed.
C10_Witness ==
    /\ pc = "done" /\ response.statusCode = 200
    /\ \E i \in 1..Len(schedules) :
          /\ schedules[i].attendance = "absent"
          /\ ~MissingFields(schedules[i])
          /\ MatchedWindow(settings, DiffMinOf(schedules[i], now)) = "24h"
          /\ ~NoRecipient(students, schedules[i].student_name)
          /\ outcome[i] = "excluded"

\* No student record has that name, or the first one that has it carries no
\* recipient id.
Unreachable(studs, name) ==
    LET named == { j \in 1..Len(studs) : studs[j].student_name = name }
    IN  \/ named = {}
        \/ \E j \in named : (\A k \in named : j <= k) /\ studs[j].student_line_id = ""

\* The channel requests of this invocation made for schedule i.
CallsFor(i) == { k \in 1..Len(history) : history[k].inv = inv /\ history[k].idx = i }

\* C11: a schedule whose student name matches no student record, or whose
\* matched student record has no recipient id, triggers no channel request
\* and adds no entry to the sent list; it is passed over without an error and
\* the loop goes on to the schedules after it.
C11_NoRecipientNoCall ==
    \A i \in 1..Len(schedules) :
        Unreachable(students, schedules[i].student_name) =>
            /\ i \notin Range(sentFrom)
            /\ CallsFor(i) = {}
            /\ i <= Len(outcome) =>
                  /\ outcome[i] \in {"excluded", "skipped", "norecipient"}
                  /\ idx > i

\* A due schedule whose matched student record has no recipient id was passed
\* over and the schedule after it was sent.
C11_Witness ==
    /\ pc = "done" /\ Len(outcome) = 2
    /\ outcome[1] = "norecipient"
    /\ FindStudent(students, schedules[1].student_name) # 0
    /\ outcome[2] = "sent"

NoSettingsDoc == \A k \in 1..Len(db) : db[k].type # "reminder_settings"

\* C12: without a settings record the defaults apply, 24h and 3h enabled and
\* 1h disabled: for an eligible schedule whose student has a recipient id, a
\* diffMin in the 24h or 3h band makes the push with that window's label (and
\* the sent entry, once the push is answered, carries it), and a diffMin in
\* the 1h band [45, 75] makes no push and is recorded as skipped.
C12_DefaultsWithoutSettings ==
    (NoSettingsDoc /\ pc \in {"loop", "await", "done", "rejected"} /\ fetchResult # "error") =>
        \A i \in 1..Len(outcome) :
            Eligible(schedules[i]) =>
                LET d == DiffMinOf(schedules[i], now)
                    reachable == ~Unreachable(students, schedules[i].student_name)
                    pushedAs(w) ==
                        /\ outcome[i] \in {"sent", "threw"}
                        /\ Cardinality(CallsFor(i)) = 1
                        /\ \A k \in CallsFor(i) : history[k].label = w
                        /\ outcome[i] = "sent" =>
                              \E j \in 1..Len(sent) : sentFrom[j] = i /\ sent[j].label = w
                IN  /\ (d \in 1425..1455 /\ reachable) => pushedAs("24h")
                    /\ (d \in 165..195 /\ reachable) => pushedAs("3h")
                    /\ d \in 45..75 =>
                          /\ outcome[i] = "skipped"
                          /\ i \in Range(skippedFrom)
                          /\ i \notin Range(sentFrom)
                          /\ CallsFor(i) = {}

\* Without a settings record, a schedule in the 1h band was skipped and a
\* schedule in the 3h band was sent.
C12_Witness ==
    /\ NoSettingsDoc /\ pc = "done" /\ fetchResult = "ok" /\ Len(outcome) = 2
    /\ outcome[1] = "skipped"
    /\ DiffMinOf(schedules[1], now) \in 45..75
    /\ outcome[2] = "sent"
    /\ sent[1].label = "3h"

\* The positions of outcome that hold one of the values of S, in order.
Positions(S) ==
    SelectSeq([i \in 1..Len(outcome) |-> i], LAMBDA i : outcome[i] \in S)

\* The schedules of this invocation's channel requests, in the order of the requests.
CallOrder ==
    LET mine == SelectSeq(history, LAMBDA h : h.inv = inv)
    IN  [k \in 1..Len(mine) |-> mine[k].idx]

\* C14: the schedules are processed in the order the data source returned
\* them, the entries of the sent list are in that same relative order, and a
\* push is completed before the next schedule is examined.
C14_ProcessedInSourceOrder ==
    /\ fetchResult = "ok" => schedules = FilterType(db, "schedule")
    /\ pc \in {"loop", "await"} => Len(outcome) = idx - 1
    /\ sentFrom = Positions({"sent"})
    /\ Len(sent) = Len(sentFrom)
    /\ \A j \in 1..Len(sent) :
          /\ sent[j].student = schedules[sentFrom[j]].student_name
          /\ sent[j].label = MatchedWindow(settings, DiffMinOf(schedules[sentFrom[j]], now))
    /\ CallOrder = Positions({"sent", "threw"}) \o (IF pc = "await" THEN <<idx>> ELSE <<>>)
    /\ lineCalls = Len(CallOrder)

\* Two schedules were sent in one invocation, for different windows.
C14_Witness ==
    /\ pc = "done" /\ Len(sent) = 2
    /\ sentFrom = <<1, 2>>
    /\ sent[1].label # sent[2].label

\* An enabled window's closed band holds d.
SomeWindowDue(s, d) ==
    \E w \in WindowNames :
        /\ WindowEnabled(s, w)
        /\ d \in (WindowOffset(w) - Tolerance)..(WindowOffset(w) + Tolerance)

\* The one outcome a schedule record falls in.
OutcomeOf(schedule) ==
    IF ~Eligible(schedule) THEN "excluded"
    ELSE IF ~SomeWindowDue(settings, DiffMinOf(schedule, now)) THEN "skipped"
    ELSE IF Unreachable(students, schedule.student_name) THEN "norecipient"
    ELSE "sent"

\* C15: in an invocation that returns a summary every schedule record has
\* exactly one of the four outcomes, at most one channel request is made per
\* record, the sent list has as many entries as channel requests were made,
\* and skippedCount is the number of eligible records with no due window.
C15_OneOutcomePerSchedule ==
    (pc = "done" /\ response.statusCode = 200) =>
        /\ Len(outcome) = Len(schedules)
        /\ \A i \in 1..Len(schedules) :
              /\ outcome[i] = OutcomeOf(schedules[i])
              /\ (i \in Range(sentFrom)) <=> (outcome[i] = "sent")
              /\ (i \in Range(skippedFrom)) <=> (outcome[i] = "skipped")
              /\ Cardinality(CallsFor(i)) <= 1
              /\ (CallsFor(i) # {}) <=> (outcome[i] = "sent")
        /\ Len(response.sent) = lineCalls
        /\ Len(sentFrom) = Len(response.sent)
        /\ Len(skippedFrom) = Len(skipped)
        /\ lineCalls = Cardinality({ k \in 1..Len(history) : history[k].inv = inv })
        /\ response.skippedCount =
              Cardinality({ i \in 1..Len(schedules) :
                              /\ Eligible(schedules[i])
                              /\ ~SomeWindowDue(settings, DiffMinOf(schedules[i], now)) })

\* A summary was returned for an excluded record followed by a due record
\* whose student has no recipient id.
C15_Witness ==
    /\ pc = "done" /\ response.statusCode = 200
    /\ outcome = <<"excluded", "norecipient">>
    /\ response.skippedCount = 0

-----------------------------------------------------------------------------
(* The window matcher on its own: lines 115-122 and 131 applied to one pair  *)
(* of settings and diffMin.                                                  *)

MaxDiff == 1500

CycleIdle ==
    /\ env = [i \in 1..3 |-> TRUE] /\ hostOffset = TokyoOffsetMin /\ clock = 0 /\ db = <<>>
    /\ pc = "off" /\ LocalsInit
    /\ inv = 0 /\ firstClock = 0 /\ history = <<>> /\ faults = FALSE

InitMatch ==
    /\ mDiff \in (0 - MaxDiff)..MaxDiff
    /\ mSettings \in { SettingsDoc(r24, r3, r1) : r24 \in BOOLEAN, r3 \in BOOLEAN,
                                                    r1 \in BOOLEAN }
    /\ mWindow = "unset"
    /\ CycleIdle
    /\ BroadcastIdle
    /\ RenderIdle
    /\ WebhookIdle

MatchApply ==
    /\ mWindow = "unset"
    /\ mWindow' = MatchedWindow(mSettings, mDiff)
    /\ UNCHANGED <<mDiff, mSettings, cycleVars, broadcastVars, renderVars, webhookVars>>

NextMatch == MatchApply

SpecMatch == InitMatch /\ [][NextMatch]_vars

\* C8: the matched window is the first, in the order 24h, 3h, 1h, whose flag
\* is enabled and whose closed band [offset - 15, offset + 15] contains
\* diffMin, and none when there is no such window.
C8_FirstEnabledBand ==
    mWindow # "unset" =>
        LET due(w) == /\ WindowEnabled(mSettings, w)
                      /\ mDiff \in (WindowOffset(w) - Tolerance)..(WindowOffset(w) + Tolerance)
        IN  mWindow = IF due("24h") THEN "24h"
                      ELSE IF due("3h") THEN "3h"
                      ELSE IF due("1h") THEN "1h"
                      ELSE "none"

\* The matcher has answered 3h at the upper end of the 3h band.
C8_Witness == mWindow = "3h" /\ mDiff = 195

-----------------------------------------------------------------------------
(* The ad-hoc broadcast: exports.handler of send-reminder.js.                *)
(*                                                                           *)
(* event.body is modelled by what JSON.parse makes of it: kind "invalid" is  *)
(* a text JSON.parse throws on (undefined included); the other kinds are the *)
(* parsed value.  An object carries the values of its properties userIds and *)
(* message; a value is [kind, items] with items the elements of an array.    *)

MaxRecipients == 3

UserIdSet == {"U1", "U2", "U3"}

Value(kind) == [kind |-> kind, items |-> <<>>]
ArrayValue(items) == [kind |-> "array", items |-> items]

\* JavaScript truthiness of a value.
Truthy(v) == v.kind \notin {"undefined", "null", "emptystring", "zero", "false"}

\* Array.isArray.
IsArray(v) == v.kind = "array"

Body(kind, userIds, message) == [kind |-> kind, userIds |-> userIds, message |-> message]

\* A body that is not an object has no property userIds or message.
Primitive(kind) == Body(kind, Value("undefined"), Value("undefined"))

UserIdsValues ==
    { Value("undefined"), Value("string") }
    \cup { ArrayValue(a) : a \in SeqsUpTo(UserIdSet, MaxRecipients) }

MessageValues == { Value("undefined"), Value("emptystring"), Value("string"), Value("number") }

Bodies ==
    { Primitive("invalid"), Primitive("null"), Primitive("number"), Primitive("string") }
    \cup { Body("object", u, m) : u \in UserIdsValues, m \in MessageValues }

InitBroadcast ==
    /\ bEvent \in [httpMethod : {"POST", "GET"}, body : Bodies]
    /\ bToken \in BOOLEAN
    /\ bPc = "idle"
    /\ bUserIds = <<>> /\ bIdx = 0 /\ bResults = <<>> /\ bCalls = <<>>
    /\ bResponse = NoBroadcastResponse
    /\ CycleIdle
    /\ MatchIdle
    /\ RenderIdle
    /\ WebhookIdle

BroadcastAnswer(status, error) ==
    /\ bResponse' = [statusCode |-> status, error |-> error, results |-> <<>>]
    /\ bPc' = "done"
    /\ UNCHANGED <<bEvent, bToken, bUserIds, bIdx, bResults, bCalls, cycleVars, matchVars,
                   renderVars, webhookVars>>

\* Lines 13-15.
MethodNotAllowed ==
    /\ bPc = "idle"
    /\ bEvent.httpMethod # "POST"
    /\ BroadcastAnswer(405, "Method Not Allowed")

\* Lines 17-23.
TokenMissing ==
    /\ bPc = "idle"
    /\ bEvent.httpMethod = "POST"
    /\ ~bToken
    /\ BroadcastAnswer(500, "LINE_CHANNEL_ACCESS_TOKEN is not set")

Parses == bPc = "idle" /\ bEvent.httpMethod = "POST" /\ bToken

\* Lines 25-30: JSON.parse throws.
InvalidJson ==
    /\ Parses
    /\ bEvent.body.kind = "invalid"
    /\ BroadcastAnswer(400, "Invalid JSON")

\* Line 32: destructuring null throws a TypeError outside every try; the
\* handler's promise rejects and nothing is returned.
DestructureThrows ==
    /\ Parses
    /\ bEvent.body.kind = "null"
    /\ bPc' = "rejected"
    /\ UNCHANGED <<bEvent, bToken, bUserIds, bIdx, bResults, bCalls, bResponse,
                   cycleVars, matchVars,
                   renderVars, webhookVars>>

Destructured == Parses /\ bEvent.body.kind \notin {"invalid", "null"}

\* Line 34.
FieldsRejected(body) ==
    ~Truthy(body.userIds) \/ ~IsArray(body.userIds) \/ ~Truthy(body.message)

\* Lines 34-39.
BadFields ==
    /\ Destructured
    /\ FieldsRejected(bEvent.body)
    /\ BroadcastAnswer(400, "userIds (array) and message are required")

\* Lines 34-41: the fields pass and the loop begins.
BroadcastStart ==
    /\ Destructured
    /\ ~FieldsRejected(bEvent.body)
    /\ bUserIds' = bEvent.body.userIds.items
    /\ bIdx' = 1
    /\ bPc' = "loop"
    /\ UNCHANGED <<bEvent, bToken, bResults, bCalls, bResponse, cycleVars, matchVars,
                   renderVars, webhookVars>>

\* pushMessage, lines 79-87: it resolves on status 200 and rejects on any
\* other status and on a transport error (result 0).
ResolvesAlways(result) == TRUE
Resolves(result) == result = 200

PushResults == {200, 400, 0}

\* Lines 42-44, up to the await: the request is issued and the handler
\* yields until the channel answers.
BroadcastIssue ==
    /\ bPc = "loop"
    /\ bIdx <= Len(bUserIds)
    /\ bCalls' = Append(bCalls, [userId |-> bUserIds[bIdx], result |-> Pending])
    /\ bPc' = "await"
    /\ UNCHANGED <<bEvent, bToken, bUserIds, bIdx, bResults, bResponse, cycleVars,
                   matchVars, renderVars, webhookVars>>

\* Lines 44-49: the request is answered; line 45 or line 47 records the
\* recipient's outcome and the loop goes on.
BroadcastPush ==
    /\ bPc = "await"
    /\ \E result \in PushResults :
          /\ bCalls' = [bCalls EXCEPT ![Len(bCalls)].result = result]
          /\ bResults' = Append(bResults,
                 [userId |-> bUserIds[bIdx],
                  status |-> IF Resolves(result) THEN "success" ELSE "error"])
    /\ bIdx' = bIdx + 1
    /\ bPc' = "loop"
    /\ UNCHANGED <<bEvent, bToken, bUserIds, bResponse, cycleVars, matchVars,
                   renderVars, webhookVars>>

\* Lines 51-54.
BroadcastReturn ==
    /\ bPc = "loop"
    /\ bIdx > Len(bUserIds)
    /\ bResponse' = [statusCode |-> 200, error |-> "", results |-> bResults]
    /\ bPc' = "done"
    /\ UNCHANGED <<bEvent, bToken, bUserIds, bIdx, bResults, bCalls, cycleVars, matchVars,
                   renderVars, webhookVars>>

NextBroadcast ==
    \/ MethodNotAllowed \/ TokenMissing \/ InvalidJson \/ DestructureThrows
    \/ BadFields \/ BroadcastStart \/ BroadcastIssue \/ BroadcastPush \/ BroadcastReturn

SpecBroadcast == InitBroadcast /\ [][NextBroadcast]_vars

\* The body lacks a required field or carries one of the wrong type: it is not
\* an object, userIds is absent or not an array, message is absent or not a
\* string.
Malformed(body) ==
    \/ body.kind # "object"
    \/ body.userIds.kind # "array"
    \/ body.message.kind \notin {"string", "emptystring"}

\* C6: a POST whose body lacks a required field or carries one of the wrong
\* type is answered 400 and no channel request is attempted.  Stated for the
\* requests that reach the body, those made with the access token configured.
C6_MalformedBodyIs400 ==
    (bPc # "idle" /\ bEvent.httpMethod = "POST" /\ bToken /\ Malformed(bEvent.body)) =>
        /\ bPc = "done"
        /\ bResponse.statusCode = 400
        /\ bCalls = <<>>

\* C7: the outcome list has one entry per input recipient, in input order, and
\* each entry is success or error by that recipient's own channel request.
C7_OneOutcomePerRecipient ==
    LET userIds == bEvent.body.userIds.items
    IN  /\ bCalls # <<>> => bPc \in {"loop", "await", "done"}
        /\ Len(bCalls) = Len(bResults) + (IF bPc = "await" THEN 1 ELSE 0)
        /\ \A i \in 1..Len(bCalls) : bCalls[i].userId = userIds[i]
        /\ \A i \in 1..Len(bResults) :
              /\ bResults[i].userId = userIds[i]
              /\ bResults[i].status = IF bCalls[i].result = 200 THEN "success" ELSE "error"
        /\ (bPc = "done" /\ bResponse.statusCode = 200) =>
              /\ bResponse.results = bResults
              /\ Len(bResponse.results) = Len(userIds)

\* Three recipients, the channel failed for the second one only.
C7_Witness ==
    /\ bPc = "done" /\ bResponse.statusCode = 200
    /\ Len(bResponse.results) = 3
    /\ bResponse.results[1].status = "success"
    /\ bResponse.results[2].status = "error"
    /\ bResponse.results[3].status = "success"
    /\ bCalls[2].result = 0

-----------------------------------------------------------------------------
(* The template renderer on its own: lines 131-140 applied to one template   *)
(* and one schedule.  A string is a sequence of tokens.  Each placeholder is *)
(* one token: "{name}", "{datetime}", "{subject}", "{instructor}".  The four *)
(* two-character patterns that String.prototype.replace interprets in its    *)
(* replacement string when the pattern is a string are tokens too: "$$",     *)
(* "$&", "$<" for dollar-backtick and "$>" for dollar-apostrophe.  Every     *)
(* other token is literal text.                                              *)

MaxTemplateLen == 3

Placeholders == {"{name}", "{datetime}", "{subject}", "{instructor}"}

\* Line 134: the template used when settings.template_24h is empty or absent.
FallbackTemplate == <<"{name}", "t", "{datetime}", "t", "{subject}">>

\* Line 134: settings.template_24h || '...'
TemplateOf(template) == IF template = <<>> THEN FallbackTemplate ELSE template

\* Line 132.
DateStr(schedule) == schedule.schedule_date \o <<" ">> \o schedule.schedule_time

\* String.prototype.indexOf, counted from 1; 0 when tok does not occur.
IndexOf(str, tok) ==
    IF \E i \in 1..Len(str) : str[i] = tok
    THEN CHOOSE i \in 1..Len(str) : str[i] = tok /\ \A j \in 1..(i - 1) : str[j] # tok
    ELSE 0

\* The replacement string of String.prototype.replace with its patterns
\* expanded: $$ inserts a "$", $& the matched substring, dollar-backtick the
\* text before the match and dollar-apostrophe the text after it.
RECURSIVE Expand(_, _, _, _)
Expand(val, pat, before, after) ==
    IF val = <<>> THEN <<>>
    ELSE (IF Head(val) = "$$" THEN <<"$">>
          ELSE IF Head(val) = "$&" THEN <<pat>>
          ELSE IF Head(val) = "$<" THEN before
          ELSE IF Head(val) = "$>" THEN after
          ELSE <<Head(val)>>) \o Expand(Tail(val), pat, before, after)

\* str.replace(pat, val) with pat a string: the first occurrence only.
ReplaceFirst(str, pat, val) ==
    LET i == IndexOf(str, pat)
        before == SubSeq(str, 1, i - 1)
        after == SubSeq(str, i + 1, Len(str))
    IN  IF i = 0 THEN str
        ELSE before \o Expand(val, pat, before, after) \o after

\* Lines 134-138.  subject || '' and instructor || '' leave a field that is
\* absent as the empty string, which is <<>> already.
Render(template, schedule) ==
    LET s1 == ReplaceFirst(TemplateOf(template), "{name}", schedule.student_name)
        s2 == ReplaceFirst(s1, "{datetime}", DateStr(schedule))
        s3 == ReplaceFirst(s2, "{subject}", schedule.subject)
    IN  ReplaceFirst(s3, "{instructor}", schedule.instructor)

\* Line 140.
MessageText(label, body) == <<"[reminder - ", label, "]", "\n">> \o body

TemplateTokens == Placeholders \cup {"t"}

RenderSchedules ==
    [student_name : {<<"A">>, <<"{subject}">>, <<"$&">>},
     schedule_date : {<<"2024-06-10">>},
     schedule_time : {<<"10:00">>},
     subject : {<<>>, <<"math">>, <<"$$">>, <<"$<">>, <<"$>">>},
     instructor : {<<>>, <<"T">>}]

InitRender ==
    /\ rTemplate \in SeqsUpTo(TemplateTokens, MaxTemplateLen)
    /\ rSchedule \in RenderSchedules
    /\ rLabel \in {"24h", "3h", "1h"}
    /\ rBody = <<>> /\ rText = <<>> /\ rPc = "ready"
    /\ CycleIdle
    /\ MatchIdle
    /\ BroadcastIdle
    /\ WebhookIdle

RenderApply ==
    /\ rPc = "ready"
    /\ rBody' = Render(rTemplate, rSchedule)
    /\ rText' = MessageText(rLabel, Render(rTemplate, rSchedule))
    /\ rPc' = "done"
    /\ UNCHANGED <<rTemplate, rSchedule, rLabel, cycleVars, matchVars, broadcastVars,
                   webhookVars>>

NextRender == RenderApply

SpecRender == InitRender /\ [][NextRender]_vars

\* The value the schedule gives for a placeholder.
PlaceholderValue(schedule, tok) ==
    IF tok = "{name}" THEN schedule.student_name
    ELSE IF tok = "{datetime}" THEN DateStr(schedule)
    ELSE IF tok = "{subject}" THEN schedule.subject
    ELSE schedule.instructor

\* The template with the first occurrence of each placeholder replaced by the
\* schedule's value and everything else left as it is.
FirstOccurrencesReplaced(template, schedule) ==
    LET first(p) == /\ template[p] \in Placeholders
                    /\ \A q \in 1..(p - 1) : template[q] # template[p]
        RECURSIVE from(_)
        from(p) == IF p > Len(template) THEN <<>>
                   ELSE (IF first(p) THEN PlaceholderValue(schedule, template[p])
                         ELSE <<template[p]>>) \o from(p + 1)
    IN  from(1)

\* C13: for every template and schedule the rendered body is the template
\* with exactly the first occurrence of each of the four placeholders replaced
\* by the schedule's value (the empty string for an absent subject or
\* instructor) and every later occurrence and all other text unchanged.
C13_FirstOccurrenceReplaced ==
    rPc = "done" => rBody = FirstOccurrencesReplaced(TemplateOf(rTemplate), rSchedule)

-----------------------------------------------------------------------------
(* The inbound webhook: exports.handler of the webhook function, one         *)
(* invocation.  event.headers is always an object, as the platform delivers  *)
(* it.  The HMAC-SHA256 digest is modelled as the pair of the key and the    *)
(* signed body, so two digests are equal exactly when key and body are.      *)

MaxEvents == 2

\* crypto.createHmac('SHA256', secret).update(body).digest('base64')
Hmac(secret, body) == [present |-> TRUE, key |-> secret, msg |-> body]

\* One element of webhookData.events:
\*   type        its type; "null" is a JSON null in place of the event;
\*   text        whether message.type is 'text';
\*   value       what message.text is: a "string"; an "array" that can be
\*               converted to a string (it has an includes method as a string
\*               has); "unconvertible", an object or an array that cannot be
\*               converted to a string, such as {"toString": 1} or
\*               [{"toString": 1}]; or "other": absent, null, a number, a
\*               boolean or an object that can be converted;
\*   userId      whether source.userId can be converted to a string (an
\*               absent source or userId can: it prints as undefined);
\*   replyToken  whether it carries a replyToken.
LineEvent(type, text, value, userId, token) ==
    [type |-> type, text |-> text, value |-> value, userId |-> userId,
     replyToken |-> token]

LineEvents ==
    {LineEvent("message", TRUE, "string", TRUE, TRUE),
     LineEvent("message", TRUE, "string", TRUE, FALSE),
     LineEvent("message", TRUE, "string", FALSE, TRUE),
     LineEvent("message", TRUE, "array", TRUE, TRUE),
     LineEvent("message", TRUE, "unconvertible", TRUE, TRUE),
     LineEvent("message", TRUE, "other", TRUE, TRUE),
     LineEvent("message", FALSE, "other", TRUE, TRUE),
     LineEvent("follow", FALSE, "other", TRUE, TRUE),
     LineEvent("follow", FALSE, "other", TRUE, FALSE),
     LineEvent("follow", FALSE, "other", FALSE, TRUE),
     LineEvent("unfollow", FALSE, "other", FALSE, TRUE),
     LineEvent("null", FALSE, "other", TRUE, FALSE)}

\* event.body: absent, text that is not JSON, the JSON null, an object whose
\* events is not iterable, or an object with a list of events (an object
\* without events has the empty list, line 53).
WebhookBodies ==
    {NoBody, [kind |-> "invalid", events |-> <<>>], [kind |-> "null", events |-> <<>>],
     [kind |-> "noniterable", events |-> <<>>]}
    \cup {[kind |-> "object", events |-> es] : es \in SeqsUpTo(LineEvents, MaxEvents)}

\* A body other than the one received, signed by whoever holds the secret.
OtherBody ==
    [kind |-> "object", events |-> <<LineEvent("follow", FALSE, "other", TRUE, TRUE)>>]

ChannelSecret == "s1"
ForeignSecret == "s2"

SignaturesFor(body) ==
    {NoSignature, Hmac(ChannelSecret, body), Hmac(ForeignSecret, body),
     Hmac(ChannelSecret, OtherBody)}

InitWebhook ==
    /\ wSecret \in {"", ChannelSecret}
    /\ wToken \in BOOLEAN
    /\ \E method \in {"POST", "GET"}, body \in WebhookBodies :
         \E signature \in SignaturesFor(body) :
            wEvent = [httpMethod |-> method, signature |-> signature, body |-> body]
    /\ wPc = "idle"
    /\ wEvents = <<>> /\ wIdx = 0 /\ wHandled = 0 /\ wReplies = <<>>
    /\ wResponse = 0
    /\ CycleIdle
    /\ MatchIdle
    /\ BroadcastIdle
    /\ RenderIdle

\* Line 22.
WebhookConfigMissing == wSecret = "" \/ ~wToken

\* Lines 72-79: Hmac.update throws a TypeError when body is null.
VerifyThrows(body, signature) == signature.present /\ body.kind = "absent"

\* A variant that accepts any signature that is present.
VerifySignaturePresentOnly(channelSecret, body, signature) == signature.present

\* Lines 72-79.
VerifySignature(channelSecret, body, signature) ==
    IF ~signature.present THEN FALSE ELSE Hmac(channelSecret, body) = signature

WebhookAnswer(status) ==
    /\ wResponse' = status
    /\ wPc' = "done"
    /\ UNCHANGED <<wEvent, wSecret, wToken, wEvents, wIdx, wHandled, wReplies,
                   cycleVars, matchVars, broadcastVars, renderVars>>

WebhookReject ==
    /\ wPc' = "rejected"
    /\ UNCHANGED <<wEvent, wSecret, wToken, wEvents, wIdx, wHandled, wReplies, wResponse,
                   cycleVars, matchVars, broadcastVars, renderVars>>

\* Lines 12-17.
WMethodNotAllowed ==
    /\ wPc = "idle"
    /\ wEvent.httpMethod # "POST"
    /\ WebhookAnswer(405)

\* Lines 19-28.
WConfigError ==
    /\ wPc = "idle"
    /\ wEvent.httpMethod = "POST"
    /\ WebhookConfigMissing
    /\ WebhookAnswer(500)

WebhookVerifying ==
    /\ wPc = "idle"
    /\ wEvent.httpMethod = "POST"
    /\ ~WebhookConfigMissing

\* Line 34: verifySignature throws, the handler's promise rejects.
WVerifyThrows ==
    /\ WebhookVerifying
    /\ VerifyThrows(wEvent.body, wEvent.signature)
    /\ WebhookReject

\* Lines 34-40.
WInvalidSignature ==
    /\ WebhookVerifying
    /\ ~VerifyThrows(wEvent.body, wEvent.signature)
    /\ ~VerifySignature(wSecret, wEvent.body, wEvent.signature)
    /\ WebhookAnswer(401)

WebhookVerified ==
    /\ WebhookVerifying
    /\ ~VerifyThrows(wEvent.body, wEvent.signature)
    /\ VerifySignature(wSecret, wEvent.body, wEvent.signature)

\* Lines 42-50.
WInvalidJson ==
    /\ WebhookVerified
    /\ wEvent.body.kind = "invalid"
    /\ WebhookAnswer(400)

\* Lines 53 and 55: reading events of null, or iterating a value that is not
\* iterable, throws outside the try.
WParseThrows ==
    /\ WebhookVerified
    /\ wEvent.body.kind \in {"null", "noniterable"}
    /\ WebhookReject

\* Lines 43-44 and 53.
WStart ==
    /\ WebhookVerified
    /\ wEvent.body.kind = "object"
    /\ wEvents' = wEvent.body.events
    /\ wIdx' = 1
    /\ wPc' = "loop"
    /\ UNCHANGED <<wEvent, wSecret, wToken, wHandled, wReplies, wResponse,
                   cycleVars, matchVars, broadcastVars, renderVars>>

WebhookInLoop == wPc = "loop" /\ wIdx <= Len(wEvents)

\* Lines 85-95 and 111-113: where handleLineEvent throws before it replies.
\* Line 85 destructures the event, which throws on null.  For a text message
\* the template literal of line 90 converts userId and text to strings, which
\* throws on a value that cannot be converted, and line 95 calls
\* text.includes, which throws when text is neither a string nor an array.
\* For a follow the template literal of line 113 converts userId.
Throws(lineEvent) ==
    \/ lineEvent.type = "null"
    \/ /\ lineEvent.type = "message" /\ lineEvent.text
       /\ (~lineEvent.userId \/ lineEvent.value \in {"unconvertible", "other"})
    \/ lineEvent.type = "follow" /\ ~lineEvent.userId

\* Lines 84-122: whether handleLineEvent calls replyMessage for the event.
Replies(lineEvent) ==
    IF Throws(lineEvent) THEN FALSE
    ELSE \/ lineEvent.type = "message" /\ lineEvent.text /\ lineEvent.replyToken
         \/ lineEvent.type = "follow" /\ lineEvent.replyToken

\* Line 55: the loop goes on to the next event.
WebhookNextEvent ==
    /\ wIdx' = wIdx + 1
    /\ UNCHANGED <<wEvent, wSecret, wToken, wEvents, wResponse,
                   cycleVars, matchVars, broadcastVars, renderVars>>

\* Lines 57, 105-107, 113-120 and 127-161: handleLineEvent is called and
\* issues the reply request; the handler yields until the platform answers.
WReplyIssue ==
    /\ WebhookInLoop
    /\ Replies(wEvents[wIdx])
    /\ wReplies' = Append(wReplies, [event |-> wIdx, result |-> "pending"])
    /\ wHandled' = wHandled + 1
    /\ wPc' = "await"
    /\ UNCHANGED <<wEvent, wSecret, wToken, wEvents, wIdx, wResponse,
                   cycleVars, matchVars, broadcastVars, renderVars>>

\* Lines 145-160 and 57-60: the reply is answered.  replyMessage resolves
\* whatever the status and rejects on a transport error, which the catch of
\* line 58 absorbs.
WEventReply ==
    /\ wPc = "await"
    /\ \E result \in {"200", "400", "error"} :
         wReplies' = [wReplies EXCEPT ![Len(wReplies)].result = result]
    /\ wPc' = "loop"
    /\ UNCHANGED wHandled
    /\ WebhookNextEvent

\* Lines 57 and 84-122: an event that is answered with nothing.
WEventSilent ==
    /\ WebhookInLoop
    /\ ~Throws(wEvents[wIdx])
    /\ ~Replies(wEvents[wIdx])
    /\ wHandled' = wHandled + 1
    /\ UNCHANGED <<wReplies, wPc>>
    /\ WebhookNextEvent

\* Lines 57-60: handleLineEvent throws, the catch absorbs it.
WEventThrows ==
    /\ WebhookInLoop
    /\ Throws(wEvents[wIdx])
    /\ wHandled' = wHandled + 1
    /\ UNCHANGED <<wReplies, wPc>>
    /\ WebhookNextEvent

\* Lines 63-66.
WReturn ==
    /\ wPc = "loop"
    /\ wIdx > Len(wEvents)
    /\ WebhookAnswer(200)

NextWebhook ==
    \/ WMethodNotAllowed
    \/ WConfigError
    \/ WVerifyThrows
    \/ WInvalidSignature
    \/ WInvalidJson
    \/ WParseThrows
    \/ WStart
    \/ WReplyIssue
    \/ WEventReply
    \/ WEventSilent
    \/ WEventThrows
    \/ WReturn

SpecWebhook == InitWebhook /\ [][NextWebhook]_vars

\* The request's signature header is missing or is not the HMAC-SHA256 of the
\* raw body under the channel secret.
BadSignature ==
    \/ ~wEvent.signature.present
    \/ wEvent.signature # Hmac(ChannelSecret, wEvent.body)

WebhookFinished == wPc \in {"done", "rejected"}

\* No event was handled and no reply request was made.
NothingHandled == wHandled = 0 /\ wReplies = <<>> /\ wPc \notin {"loop", "await"}

\* C16 as stated: a POST whose signature is missing or wrong is answered 401
\* with no event handled and no reply call, and a request that is not a POST
\* is answered 405 before any check.
C16_BadSignatureIs401 ==
    /\ wEvent.httpMethod = "POST" /\ BadSignature =>
         /\ NothingHandled
         /\ WebhookFinished => wPc = "done" /\ wResponse = 401
    /\ wEvent.httpMethod # "POST" =>
         /\ NothingHandled
         /\ WebhookFinished => wPc = "done" /\ wResponse = 405

\* C16, amended: for a POST whose signature is missing or wrong no event is
\* ever handled and no reply call is ever made; the request is answered 500
\* when the channel secret or the access token is not configured, otherwise
\* the invocation fails without a response when the header is present and the
\* request has no body, and otherwise the request is answered 401.  A request
\* that is not a POST is answered 405 before any check.
C16_BadSignatureNeverHandled ==
    /\ wEvent.httpMethod = "POST" /\ BadSignature =>
         /\ NothingHandled
         /\ WebhookFinished =>
              IF WebhookConfigMissing THEN wPc = "done" /\ wResponse = 500
              ELSE IF wEvent.signature.present /\ wEvent.body = NoBody
                   THEN wPc = "rejected" /\ wResponse = 0
                   ELSE wPc = "done" /\ wResponse = 401
    /\ wEvent.httpMethod # "POST" =>
         /\ NothingHandled
         /\ WebhookFinished => wPc = "done" /\ wResponse = 405

\* A configured handler has answered 401 to a POST that carries events which
\* would be replied to, signed with a key that is not the channel secret.
C16_Witness ==
    /\ wPc = "done" /\ wResponse = 401
    /\ wEvent.httpMethod = "POST"
    /\ ~WebhookConfigMissing
    /\ wEvent.signature = Hmac(ForeignSecret, wEvent.body)
    /\ wEvent.body.kind = "object"
    /\ \E i \in 1..Len(wEvent.body.events) :
          Replies(wEvent.body.events[i])
    /\ NothingHandled

=============================================================================
